---- MODULE Spec2Model ----
(***************************************************************************)
(* Screen-capture subsystem of src-tauri/src/lib.rs: the capture_screen    *)
(* command, its orchestrator capture_screen_inner, the macOS compositor    *)
(* strategy with its BGRA -> RGBA pixel conversion, the Windows            *)
(* hide-and-restore strategy and the universal full-display fallback.      *)
(***************************************************************************)
EXTENDS Integers, Sequences, FiniteSets, TLC

(* ---------------------------------------------------------------------- *)
(* Bounds of the model                                                    *)
(* ---------------------------------------------------------------------- *)
MaxWidth == 2
MaxHeight == 2
MaxStride == 9
MaxDataLen == 17
MaxScreens == 2
MaxPngLen == 4
MaxSettingsWindows == 2

(* ---------------------------------------------------------------------- *)
(* Values                                                                 *)
(* ---------------------------------------------------------------------- *)
Procs == {1, 2}

Platforms == {"macos", "windows", "other"}

NoResult == [kind |-> "none", val |-> << >>, err |-> ""]

Ok(v) == [kind |-> "ok", val |-> v, err |-> ""]

Err(msg) == [kind |-> "err", val |-> << >>, err |-> msg]

NoImage == [width |-> 0, height |-> 0, bytes_per_row |-> 0, data |-> << >>]

(* a pixel buffer of n bytes: byte i is (first + i * step) mod 256 *)
Buffer(first, step, n) == [i \in 1..n |-> (first + (i - 1) * step) % 256]

SpecExample == <<10, 20, 30, 255, 40, 50, 60, 255>>

(* the images the conversion is checked on *)
ConvImages ==
  { [width |-> w, height |-> h, bytes_per_row |-> s, data |-> d] :
      w \in 0..MaxWidth, h \in 0..MaxHeight, s \in 0..MaxStride,
      d \in { Buffer(f, 1, n) : f \in {0, 250}, n \in 0..MaxDataLen }
            \cup { SubSeq(SpecExample \o SpecExample \o SpecExample, 1, n) : n \in 0..MaxDataLen } }

(* byte values that set and clear every bit position of a base64 group *)
SampleBytes == {0, 63, 85, 170, 252, 255}

RECURSIVE ByteStrings(_)
ByteStrings(n) ==
  IF n = 0 THEN { << >> }
  ELSE { Append(b, x) : b \in ByteStrings(n - 1), x \in SampleBytes }

(* the PNG byte sequences the transport encoding is checked on *)
PngSamples == UNION { ByteStrings(n) : n \in 1..MaxPngLen }

(* the images CGWindowListCreateImage returns in the capture model *)
NativeImages ==
  { [width |-> 1, height |-> 1, bytes_per_row |-> 4, data |-> Buffer(1, 1, 4)],
    [width |-> 2, height |-> 1, bytes_per_row |-> 8, data |-> SpecExample],
    [width |-> 1, height |-> 2, bytes_per_row |-> 8, data |-> Buffer(1, 1, 16)],
    [width |-> 1, height |-> 2, bytes_per_row |-> 8, data |-> Buffer(1, 1, 12)],
    [width |-> 2, height |-> 1, bytes_per_row |-> 4, data |-> Buffer(1, 1, 4)] }

(* ---------------------------------------------------------------------- *)
(* Pixel conversion (capture_screen_without_overlay_mac, lines 154-172)   *)
(* ---------------------------------------------------------------------- *)
(* the check compares against the packed size instead of stride * height *)
BufferTooShort_Packed(img) == Len(img.data) < img.width * 4 * img.height

BufferTooShort(img) == Len(img.data) < img.bytes_per_row * img.height

(* the output is allocated with the source's stride *)
AllocRgba_Strided(img) == [i \in 1..(img.bytes_per_row * img.height) |-> 0]

AllocRgba(img) == [i \in 1..(img.width * img.height * 4) |-> 0]

(* the source slice &data[src_offset..src_offset + width * 4] is in range *)
SrcRowInRange(img, y) == y * img.bytes_per_row + img.width * 4 <= Len(img.data)

(* the channels are rotated instead of exchanged *)
ConvertPixel_Rotate(src_px) == <<src_px[2], src_px[3], src_px[1], src_px[4]>>

(* the pixel is copied without the channel swap *)
ConvertPixel_NoSwap(src_px) == <<src_px[1], src_px[2], src_px[3], src_px[4]>>

ConvertPixel(src_px) == <<src_px[3], src_px[2], src_px[1], src_px[4]>>

ConvertRow(rgba, img, y) ==
  LET src_offset == y * img.bytes_per_row
      dst_offset == y * img.width * 4
      src_row == SubSeq(img.data, src_offset + 1, src_offset + img.width * 4)
      dst_byte(j) == LET px == (j - 1) \div 4
                         ch == (j - 1) % 4
                     IN ConvertPixel(SubSeq(src_row, 4 * px + 1, 4 * px + 4))[ch + 1]
  IN [i \in 1..Len(rgba) |->
        IF i > dst_offset /\ i <= dst_offset + img.width * 4
          THEN dst_byte(i - dst_offset)
          ELSE rgba[i]]

(* the png crate is a library: its container is abstracted to a header    *)
(* carrying the dimensions followed by the pixel data                     *)
PngEncode(width, height, rgba) == <<width, height>> \o rgba

(* ---------------------------------------------------------------------- *)
(* Transport encoding (general_purpose::STANDARD.encode)                  *)
(* ---------------------------------------------------------------------- *)
B64Alphabet ==
  << "A","B","C","D","E","F","G","H","I","J","K","L","M","N","O","P",
     "Q","R","S","T","U","V","W","X","Y","Z","a","b","c","d","e","f",
     "g","h","i","j","k","l","m","n","o","p","q","r","s","t","u","v",
     "w","x","y","z","0","1","2","3","4","5","6","7","8","9","+","/" >>

(* the URL-safe alphabet is used instead of the standard one *)
B64Char_UrlSafe(n) == IF n = 62 THEN "-" ELSE IF n = 63 THEN "_" ELSE B64Alphabet[n + 1]

B64Char(n) == B64Alphabet[n + 1]

RECURSIVE Base64Encode(_)
Base64Encode(bytes) ==
  IF Len(bytes) = 0 THEN << >>
  ELSE IF Len(bytes) = 1 THEN
    << B64Char(bytes[1] \div 4), B64Char((bytes[1] % 4) * 16), "=", "=" >>
  ELSE IF Len(bytes) = 2 THEN
    << B64Char(bytes[1] \div 4),
       B64Char((bytes[1] % 4) * 16 + bytes[2] \div 16),
       B64Char((bytes[2] % 16) * 4), "=" >>
  ELSE
    << B64Char(bytes[1] \div 4),
       B64Char((bytes[1] % 4) * 16 + bytes[2] \div 16),
       B64Char((bytes[2] % 16) * 4 + bytes[3] \div 64),
       B64Char(bytes[3] % 64) >>
    \o Base64Encode(SubSeq(bytes, 4, Len(bytes)))

(* ---------------------------------------------------------------------- *)
(* Universal fallback (capture_full_display_png / _base64, lines 110-120) *)
(* ---------------------------------------------------------------------- *)
(* what the screenshots library answers to one capture_full_display_png:  *)
(* all_ok: Screen::all() succeeded; screens: the displays it enumerated;  *)
(* capture_ok: screen.capture() succeeded; png_ok: image.to_png() did     *)
DisplayAnswers ==
  { [all_ok |-> a, screens |-> s, capture_ok |-> c, png_ok |-> g] :
      a \in BOOLEAN,
      s \in { [i \in 1..n |-> i] : n \in 0..MaxScreens }
            \cup { [i \in 1..n |-> n + 1 - i] : n \in 2..MaxScreens },
      c \in BOOLEAN, g \in BOOLEAN }

(* the answers of a run with overlapping requests: one display whose      *)
(* capture succeeds or fails                                              *)
ConcAnswers ==
  { [all_ok |-> TRUE, screens |-> <<1>>, capture_ok |-> c, png_ok |-> TRUE] : c \in BOOLEAN }

(* the bytes of the PNG of display d, taken while the window is shown or not *)
DisplayPng(d, window_shown) == <<137, 80, d, IF window_shown THEN 1 ELSE 0>>

(* the last enumerated display is captured instead of the first *)
capture_full_display_png_LastScreen(ans, window_shown) ==
  IF ~ans.all_ok THEN Err("Screen::all failed")
  ELSE IF Len(ans.screens) = 0 THEN Err("No screens found")
  ELSE IF ~ans.capture_ok THEN Err("screen.capture failed")
  ELSE IF ~ans.png_ok THEN Err("to_png failed")
  ELSE Ok(DisplayPng(ans.screens[Len(ans.screens)], window_shown))

capture_full_display_png(ans, window_shown) ==
  IF ~ans.all_ok THEN Err("Screen::all failed")
  ELSE IF Len(ans.screens) = 0 THEN Err("No screens found")
  ELSE IF ~ans.capture_ok THEN Err("screen.capture failed")
  ELSE IF ~ans.png_ok THEN Err("to_png failed")
  ELSE Ok(DisplayPng(ans.screens[1], window_shown))

capture_full_display_base64(ans, window_shown) ==
  LET r == capture_full_display_png(ans, window_shown)
  IN IF r.kind = "ok" THEN Ok(Base64Encode(r.val)) ELSE r

(* ---------------------------------------------------------------------- *)
(* State                                                                  *)
(* ---------------------------------------------------------------------- *)
VARIABLES
  platform,         \* the target_os the binary was compiled for
  visible,          \* the window is shown on screen
  focused,          \* the window has the input focus
  requests,         \* the capture_screen invocations the host issues
  answers,          \* the answers the display library can give in this run
  pc,               \* pc[p]: where invocation p stands
  entry,            \* entry[p]: window state when p entered capture_screen_inner
  was_visible,      \* local of capture_screen_without_overlay_windows
  capture_result,   \* local of capture_screen_without_overlay_windows
  image,            \* cg_image of capture_screen_without_overlay_mac
  rgba,             \* rgba buffer of capture_screen_without_overlay_mac
  row,              \* loop variable y of capture_screen_without_overlay_mac
  allocated,        \* the rgba buffer has been allocated
  strategy_result,  \* what the platform strategy returned
  fallback_input,   \* what the display library answered to the fallback
  result,           \* what capture_screen returned
  trace,            \* trace[p]: the native calls p made, in order
  baseline,         \* the window's visibility when no request was in flight, and
                    \* whether the requests made since have neither panicked nor
                    \* seen a window call fail
  ready,            \* the setup hook of run() has completed
  show_enabled,     \* the tray item "Show Spotlight" is enabled
  hide_enabled,     \* the tray item "Hide Spotlight" is enabled
  tray_update,      \* the last TrayMenuState::set_visibility call
  main_exists,      \* the main window has not been destroyed
  emitted,          \* the last event emitted to the front end
  handled,          \* the last handler that ran, and how its calls went
  settings_windows, \* how many windows carry the label "settings"
  settings_visible, \* the settings window is shown
  settings_focused, \* the settings window has the input focus
  settings_closing  \* close() was accepted and the window is not yet destroyed

vars == <<platform, visible, focused, requests, answers, pc, entry, was_visible,
          capture_result, image, rgba, row, allocated, strategy_result,
          fallback_input, result, trace, baseline, ready, show_enabled,
          hide_enabled, tray_update, main_exists, emitted, handled,
          settings_windows, settings_visible, settings_focused, settings_closing>>

(* the state of the tray menu *)
tray == <<ready, show_enabled, hide_enabled, tray_update>>

(* the state of the settings window *)
settings == <<settings_windows, settings_visible, settings_focused, settings_closing>>

(* what a handler did: found tells whether the window it looked up was    *)
(* there, ok whether its window calls succeeded, emit_ok whether its      *)
(* event was emitted                                                      *)
Handled(op, found, ok, emit_ok) ==
  [op |-> op, found |-> found, ok |-> ok, emit_ok |-> emit_ok]

NoSettingsWindow ==
  /\ settings_windows = 0
  /\ settings_visible = FALSE
  /\ settings_focused = FALSE
  /\ settings_closing = FALSE

(* the state of the application outside the capture command *)
shell == <<tray, main_exists, emitted, handled, settings>>

Event(call, ok) == [call |-> call, ok |-> ok]

NoFallback == [called |-> FALSE,
               ans |-> [all_ok |-> FALSE, screens |-> << >>,
                        capture_ok |-> FALSE, png_ok |-> FALSE],
               shown |-> FALSE]

Calls(tr, call) == { i \in 1..Len(tr) : tr[i].call = call }

Called(tr, call) == Calls(tr, call) # {}

Succeeded(tr, call) == \E i \in Calls(tr, call) : tr[i].ok

Failed(tr, call) == \E i \in Calls(tr, call) : ~tr[i].ok

InitLocals ==
  /\ entry = [p \in Procs |-> [visible |-> FALSE, focused |-> FALSE]]
  /\ was_visible = [p \in Procs |-> FALSE]
  /\ capture_result = [p \in Procs |-> NoResult]
  /\ rgba = [p \in Procs |-> << >>]
  /\ row = [p \in Procs |-> 0]
  /\ allocated = [p \in Procs |-> FALSE]
  /\ strategy_result = [p \in Procs |-> NoResult]
  /\ fallback_input = [p \in Procs |-> NoFallback]
  /\ result = [p \in Procs |-> NoResult]

(* the tray menu after a setup whose menu updates succeeded, lines 674-679 *)
InitShell ==
  /\ ready = TRUE
  /\ show_enabled = TRUE
  /\ hide_enabled = FALSE
  /\ tray_update = [called |-> TRUE, visible |-> FALSE, show_ok |-> TRUE, hide_ok |-> TRUE]
  /\ main_exists = TRUE
  /\ emitted = "none"
  /\ handled = Handled("setup", TRUE, TRUE, TRUE)
  /\ NoSettingsWindow

(* one capture request at a time, on any platform *)
Init ==
  /\ platform \in Platforms
  /\ visible \in BOOLEAN
  /\ focused \in BOOLEAN
  /\ focused => visible
  /\ requests = {1}
  /\ answers = DisplayAnswers
  /\ pc = [p \in Procs |-> "idle"]
  /\ image = [p \in Procs |-> NoImage]
  /\ trace = [p \in Procs |-> << >>]
  /\ InitLocals
  /\ InitShell
  /\ baseline = [visible |-> visible, clean |-> TRUE]

(* the application before its setup hook has run: both tray items have    *)
(* been created enabled (lines 640-653)                                   *)
InitTray ==
  /\ platform \in Platforms
  /\ visible \in BOOLEAN
  /\ focused \in BOOLEAN
  /\ focused => visible
  /\ requests = {1}
  /\ answers = DisplayAnswers
  /\ pc = [p \in Procs |-> "idle"]
  /\ image = [p \in Procs |-> NoImage]
  /\ trace = [p \in Procs |-> << >>]
  /\ InitLocals
  /\ ready = FALSE
  /\ show_enabled = TRUE
  /\ hide_enabled = TRUE
  /\ tray_update = [called |-> FALSE, visible |-> FALSE, show_ok |-> TRUE, hide_ok |-> TRUE]
  /\ main_exists = TRUE
  /\ emitted = "none"
  /\ handled = Handled("none", FALSE, TRUE, TRUE)
  /\ NoSettingsWindow
  /\ baseline = [visible |-> visible, clean |-> TRUE]

(* two overlapping capture requests on the same window *)
InitConc ==
  /\ platform = "windows"
  /\ visible \in BOOLEAN
  /\ focused \in BOOLEAN
  /\ focused => visible
  /\ requests = {1, 2}
  /\ answers = ConcAnswers
  /\ pc = [p \in Procs |-> "idle"]
  /\ image = [p \in Procs |-> NoImage]
  /\ trace = [p \in Procs |-> << >>]
  /\ InitLocals
  /\ InitShell
  /\ baseline = [visible |-> visible, clean |-> TRUE]

(* the transport encoding alone: the hide-and-restore strategy has just    *)
(* returned the PNG bytes of a capture taken with the window hidden       *)
InitEnc ==
  /\ platform = "windows"
  /\ visible = FALSE
  /\ focused = FALSE
  /\ requests = {1}
  /\ answers = DisplayAnswers
  /\ pc = [p \in Procs |-> IF p = 1 THEN "strategy_returned" ELSE "idle"]
  /\ image = [p \in Procs |-> NoImage]
  /\ trace = [p \in Procs |->
                IF p = 1 THEN <<Event("is_visible", TRUE), Event("capture_full_display_png", TRUE)>>
                ELSE << >>]
  /\ entry = [p \in Procs |-> [visible |-> FALSE, focused |-> FALSE]]
  /\ was_visible = [p \in Procs |-> FALSE]
  /\ \E png \in PngSamples :
       /\ capture_result = [p \in Procs |-> IF p = 1 THEN Ok(png) ELSE NoResult]
       /\ strategy_result = [p \in Procs |-> IF p = 1 THEN Ok(png) ELSE NoResult]
  /\ rgba = [p \in Procs |-> << >>]
  /\ row = [p \in Procs |-> 0]
  /\ allocated = [p \in Procs |-> FALSE]
  /\ fallback_input = [p \in Procs |-> NoFallback]
  /\ result = [p \in Procs |-> NoResult]
  /\ InitShell
  /\ baseline = [visible |-> visible, clean |-> TRUE]

(* the conversion alone: CGWindowListCreateImage has just returned an image *)
InitConv ==
  /\ platform = "macos"
  /\ visible = TRUE
  /\ focused = TRUE
  /\ requests = {1}
  /\ answers = DisplayAnswers
  /\ pc = [p \in Procs |-> IF p = 1 THEN "mac_len_check" ELSE "idle"]
  /\ image \in { [p \in Procs |-> IF p = 1 THEN img ELSE NoImage] : img \in ConvImages }
  /\ trace = [p \in Procs |->
                IF p = 1 THEN <<Event("ns_window", TRUE), Event("create_image", TRUE)>>
                ELSE << >>]
  /\ InitLocals
  /\ InitShell
  /\ baseline = [visible |-> visible, clean |-> TRUE]

(* ---------------------------------------------------------------------- *)
(* Decisions of the code                                                  *)
(* ---------------------------------------------------------------------- *)
(* the window is hidden whether or not it was visible *)
HideNeeded_Always(was_vis) == TRUE

(* `if was_visible` before the capture, line 198 *)
HideNeeded(was_vis) == was_vis

(* the window is restored only after a successful capture *)
RestoreNeeded_OnlyOnSuccess(was_vis, cap) == was_vis /\ cap.kind = "ok"

(* `if was_visible` after the capture, line 208 *)
RestoreNeeded(was_vis, cap) == was_vis

(* the second settle delay is left out *)
AfterShow_NoDelay(show_ok) == "win_set_focus"

(* the settle delay precedes the refocus only when show() succeeded, 209-214 *)
AfterShow(show_ok) == IF show_ok THEN "win_sleep_30" ELSE "win_set_focus"

(* a failed show() is propagated as the strategy's error *)
WindowsStrategyResult_ShowAborts(cap, tr) ==
  IF \E i \in 1..Len(tr) : tr[i].call = "show" /\ ~tr[i].ok
    THEN [kind |-> "err", val |-> << >>, err |-> "Failed to restore window visibility after capture"]
    ELSE cap

(* the tail expression `capture_result`, line 221 *)
WindowsStrategyResult(cap, tr) == cap

(* a too-short pixel buffer is not recovered by the fallback *)
FallsThrough_NotBufferLength(strat) ==
  strat.kind = "err" /\ strat.err # "Unexpected pixel buffer length"

(* the `Err(err) =>` arm of the match on the strategy's result, 91-93, 101-103 *)
FallsThrough(strat) == strat.kind = "err"

(* the `Ok(png_bytes) =>` arm, lines 90 and 100 *)
StrategySuccess(strat) == Ok(Base64Encode(strat.val))

(* a failing fallback reports the strategy's error instead of its own *)
FallbackOutcome_KeepsStrategyError(strat, fb) ==
  IF fb.kind = "err" /\ strat.kind = "err" THEN strat ELSE fb

(* the tail expression capture_full_display_base64(), line 107 *)
FallbackOutcome(strat, fb) == fb

(* a failing fallback is retried *)
AfterFallback_Retry(fb) == IF fb.kind = "err" THEN "fallback" ELSE "done"

(* where the orchestrator goes once the fallback has returned, line 107-108 *)
AfterFallback(fb) == "done"

(* ---------------------------------------------------------------------- *)
(* Steps shared by the actions                                            *)
(* ---------------------------------------------------------------------- *)
Goto(p, label) == pc' = [pc EXCEPT ![p] = label]

Log(p, call, ok) == trace' = [trace EXCEPT ![p] = Append(@, Event(call, ok))]

WindowUnchanged == UNCHANGED <<visible, focused>>

MacLocalsUnchanged == UNCHANGED <<image, rgba, row, allocated>>

WinLocalsUnchanged == UNCHANGED <<was_visible, capture_result>>

OutcomeUnchanged == UNCHANGED <<strategy_result, fallback_input, result>>

(* a `?` or a final expression returns r from the platform strategy *)
StrategyReturns(p, r) ==
  /\ strategy_result' = [strategy_result EXCEPT ![p] = r]
  /\ Goto(p, "strategy_returned")

(* ---------------------------------------------------------------------- *)
(* capture_screen and capture_screen_inner                                *)
(* ---------------------------------------------------------------------- *)
(* invocations wait for each other: one at a time runs capture_screen_inner *)
MayEnter_Serialized(p) ==
  \A q \in Procs \ {p} : pc[q] \in {"idle", "inner", "done", "panicked"}

(* the command is an async fn without a lock or queue, lines 62-65 *)
MayEnter(p) == TRUE

(* the other invocations that have started and not yet ended *)
InFlight(p) == { q \in Procs \ {p} : pc[q] \notin {"idle", "done", "panicked"} }

capture_screen(p) ==
  /\ p \in requests
  /\ pc[p] \in {"idle", "done", "panicked"}
  /\ Goto(p, "inner")
  /\ trace' = [trace EXCEPT ![p] = << >>]
  /\ entry' = [entry EXCEPT ![p] = [visible |-> FALSE, focused |-> FALSE]]
  /\ was_visible' = [was_visible EXCEPT ![p] = FALSE]
  /\ capture_result' = [capture_result EXCEPT ![p] = NoResult]
  /\ image' = [image EXCEPT ![p] = NoImage]
  /\ rgba' = [rgba EXCEPT ![p] = << >>]
  /\ row' = [row EXCEPT ![p] = 0]
  /\ allocated' = [allocated EXCEPT ![p] = FALSE]
  /\ strategy_result' = [strategy_result EXCEPT ![p] = NoResult]
  /\ fallback_input' = [fallback_input EXCEPT ![p] = NoFallback]
  /\ result' = [result EXCEPT ![p] = NoResult]
  /\ baseline' = IF InFlight(p) = {}
                   THEN [visible |-> visible, clean |-> TRUE]
                   ELSE [baseline EXCEPT !.clean =
                           @ /\ pc[p] # "panicked"
                             /\ \A i \in 1..Len(trace[p]) :
                                  trace[p][i].call \in {"hide", "show", "set_focus"}
                                    => trace[p][i].ok]
  /\ UNCHANGED <<platform, requests, answers, shell>>
  /\ WindowUnchanged

capture_screen_inner(p) ==
  /\ pc[p] = "inner"
  /\ MayEnter(p)
  /\ entry' = [entry EXCEPT ![p] = [visible |-> visible, focused |-> focused]]
  /\ Goto(p, CASE platform = "macos" -> "mac_ns_window"
               [] platform = "windows" -> "win_is_visible"
               [] OTHER -> "fallback")
  /\ UNCHANGED <<platform, requests, answers, shell, baseline, trace>>
  /\ WindowUnchanged /\ MacLocalsUnchanged /\ WinLocalsUnchanged /\ OutcomeUnchanged

(* the match on the strategy's result, lines 89-94 and 99-104 *)
strategy_returned(p) ==
  /\ pc[p] = "strategy_returned"
  /\ IF FallsThrough(strategy_result[p])
       THEN /\ Goto(p, "fallback")
            /\ UNCHANGED <<result, trace>>
       ELSE /\ result' = [result EXCEPT ![p] = StrategySuccess(strategy_result[p])]
            /\ Goto(p, "done")
            /\ Log(p, "return", TRUE)
  /\ UNCHANGED <<platform, requests, answers, shell, baseline, entry, strategy_result, fallback_input>>
  /\ WindowUnchanged /\ MacLocalsUnchanged /\ WinLocalsUnchanged

(* capture_full_display_base64() as the last step of capture_screen_inner *)
fallback(p) ==
  /\ pc[p] = "fallback"
  /\ \E ans \in answers :
       LET fb == capture_full_display_base64(ans, visible)
           out == FallbackOutcome(strategy_result[p], fb)
           next == AfterFallback(fb)
       IN /\ fallback_input' = [fallback_input EXCEPT ![p] =
                                  [called |-> TRUE, ans |-> ans, shown |-> visible]]
          /\ Goto(p, next)
          /\ IF next = "done"
               THEN /\ result' = [result EXCEPT ![p] = out]
                    /\ trace' = [trace EXCEPT ![p] =
                                   @ \o <<Event("capture_full_display_base64", fb.kind = "ok"),
                                          Event("return", out.kind = "ok")>>]
               ELSE /\ result' = result
                    /\ Log(p, "capture_full_display_base64", fb.kind = "ok")
  /\ UNCHANGED <<platform, requests, answers, shell, baseline, entry, strategy_result>>
  /\ WindowUnchanged /\ MacLocalsUnchanged /\ WinLocalsUnchanged

(* the display library terminates the fallback abnormally *)
fallback_panic(p) ==
  /\ pc[p] = "fallback"
  /\ Goto(p, "panicked")
  /\ Log(p, "capture_full_display_base64", FALSE)
  /\ UNCHANGED <<platform, requests, answers, shell, baseline, entry>>
  /\ WindowUnchanged /\ MacLocalsUnchanged /\ WinLocalsUnchanged /\ OutcomeUnchanged

(* ---------------------------------------------------------------------- *)
(* capture_screen_without_overlay_mac, lines 122-188                      *)
(* ---------------------------------------------------------------------- *)
ns_window(p) ==
  /\ pc[p] = "mac_ns_window"
  /\ \E ok \in BOOLEAN :
       /\ Log(p, "ns_window", ok)
       /\ IF ok THEN Goto(p, "mac_create_image") /\ UNCHANGED strategy_result
                ELSE StrategyReturns(p, Err("Failed to access native window"))
  /\ UNCHANGED <<platform, requests, answers, shell, baseline, entry, fallback_input, result>>
  /\ WindowUnchanged /\ MacLocalsUnchanged /\ WinLocalsUnchanged

create_image(p) ==
  /\ pc[p] = "mac_create_image"
  /\ \/ /\ Log(p, "create_image", FALSE)
        /\ StrategyReturns(p, Err("CGWindowListCreateImage returned null"))
        /\ UNCHANGED image
     \/ \E img \in NativeImages :
          /\ Log(p, "create_image", TRUE)
          /\ image' = [image EXCEPT ![p] = img]
          /\ Goto(p, "mac_len_check")
          /\ UNCHANGED strategy_result
  /\ UNCHANGED <<platform, requests, answers, shell, baseline, entry, rgba, row, allocated, fallback_input, result>>
  /\ WindowUnchanged /\ WinLocalsUnchanged

(* the length check of lines 154-156 and the allocation of line 158 *)
mac_len_check(p) ==
  /\ pc[p] = "mac_len_check"
  /\ IF BufferTooShort(image[p])
       THEN /\ StrategyReturns(p, Err("Unexpected pixel buffer length"))
            /\ UNCHANGED <<rgba, row, allocated>>
       ELSE /\ rgba' = [rgba EXCEPT ![p] = AllocRgba(image[p])]
            /\ allocated' = [allocated EXCEPT ![p] = TRUE]
            /\ row' = [row EXCEPT ![p] = 0]
            /\ Goto(p, "mac_rows")
            /\ UNCHANGED strategy_result
  /\ UNCHANGED <<platform, requests, answers, shell, baseline, entry, image, fallback_input, result, trace>>
  /\ WindowUnchanged /\ WinLocalsUnchanged

(* one iteration of `for y in 0..height`, lines 159-172 *)
mac_convert_row(p) ==
  /\ pc[p] = "mac_rows"
  /\ row[p] < image[p].height
  /\ SrcRowInRange(image[p], row[p])
  /\ rgba' = [rgba EXCEPT ![p] = ConvertRow(@, image[p], row[p])]
  /\ row' = [row EXCEPT ![p] = @ + 1]
  /\ UNCHANGED <<platform, requests, answers, shell, baseline, pc, entry, image, allocated, trace>>
  /\ WindowUnchanged /\ WinLocalsUnchanged /\ OutcomeUnchanged

(* the slice of line 162 is out of range: the thread panics *)
mac_row_panic(p) ==
  /\ pc[p] = "mac_rows"
  /\ row[p] < image[p].height
  /\ ~SrcRowInRange(image[p], row[p])
  /\ Goto(p, "panicked")
  /\ Log(p, "panic", FALSE)
  /\ UNCHANGED <<platform, requests, answers, shell, baseline, entry>>
  /\ WindowUnchanged /\ MacLocalsUnchanged /\ WinLocalsUnchanged /\ OutcomeUnchanged

(* the loop ends *)
mac_rows_done(p) ==
  /\ pc[p] = "mac_rows"
  /\ row[p] >= image[p].height
  /\ Goto(p, "mac_encode")
  /\ UNCHANGED <<platform, requests, answers, shell, baseline, entry, trace>>
  /\ WindowUnchanged /\ MacLocalsUnchanged /\ WinLocalsUnchanged /\ OutcomeUnchanged

(* the PNG encoder, lines 174-187 *)
mac_encode(p) ==
  /\ pc[p] = "mac_encode"
  /\ \E header_ok \in BOOLEAN, data_ok \in BOOLEAN :
       /\ Log(p, "png_encode", header_ok /\ data_ok)
       /\ StrategyReturns(p,
            IF ~header_ok THEN Err("Failed to write PNG header")
            ELSE IF ~data_ok THEN Err("Failed to encode PNG")
            ELSE Ok(PngEncode(image[p].width, image[p].height, rgba[p])))
  /\ UNCHANGED <<platform, requests, answers, shell, baseline, entry, fallback_input, result>>
  /\ WindowUnchanged /\ MacLocalsUnchanged /\ WinLocalsUnchanged

(* ---------------------------------------------------------------------- *)
(* capture_screen_without_overlay_windows, lines 190-222                  *)
(* ---------------------------------------------------------------------- *)
is_visible(p) ==
  /\ pc[p] = "win_is_visible"
  /\ \E ok \in BOOLEAN :
       /\ Log(p, "is_visible", ok)
       /\ IF ok
            THEN /\ was_visible' = [was_visible EXCEPT ![p] = visible]
                 /\ Goto(p, IF HideNeeded(visible) THEN "win_hide" ELSE "win_capture")
                 /\ UNCHANGED strategy_result
            ELSE /\ StrategyReturns(p, Err("Failed to determine window visibility"))
                 /\ UNCHANGED was_visible
  /\ UNCHANGED <<platform, requests, answers, shell, baseline, entry, capture_result, fallback_input, result>>
  /\ WindowUnchanged /\ MacLocalsUnchanged

hide(p) ==
  /\ pc[p] = "win_hide"
  /\ \E ok \in BOOLEAN :
       /\ Log(p, "hide", ok)
       /\ IF ok
            THEN /\ visible' = FALSE
                 /\ focused' = FALSE
                 /\ Goto(p, "win_sleep_80")
                 /\ UNCHANGED strategy_result
            ELSE /\ StrategyReturns(p, Err("Failed to hide window before capture"))
                 /\ WindowUnchanged
  /\ UNCHANGED <<platform, requests, answers, shell, baseline, entry, fallback_input, result>>
  /\ MacLocalsUnchanged /\ WinLocalsUnchanged

(* thread::sleep(Duration::from_millis(80)), line 203 *)
sleep_80(p) ==
  /\ pc[p] = "win_sleep_80"
  /\ Log(p, "sleep_80", TRUE)
  /\ Goto(p, "win_capture")
  /\ UNCHANGED <<platform, requests, answers, shell, baseline, entry>>
  /\ WindowUnchanged /\ MacLocalsUnchanged /\ WinLocalsUnchanged /\ OutcomeUnchanged

(* let capture_result = capture_full_display_png(), line 206 *)
win_capture(p) ==
  /\ pc[p] = "win_capture"
  /\ \E ans \in answers :
       LET cap == capture_full_display_png(ans, visible)
       IN /\ capture_result' = [capture_result EXCEPT ![p] = cap]
          /\ Log(p, "capture_full_display_png", cap.kind = "ok")
          /\ Goto(p, IF RestoreNeeded(was_visible[p], cap) THEN "win_show" ELSE "win_return")
  /\ UNCHANGED <<platform, requests, answers, shell, baseline, entry, was_visible>>
  /\ WindowUnchanged /\ MacLocalsUnchanged /\ OutcomeUnchanged

(* the display library terminates the inner capture abnormally *)
win_capture_panic(p) ==
  /\ pc[p] = "win_capture"
  /\ Goto(p, "panicked")
  /\ Log(p, "panic", FALSE)
  /\ UNCHANGED <<platform, requests, answers, shell, baseline, entry>>
  /\ WindowUnchanged /\ MacLocalsUnchanged /\ WinLocalsUnchanged /\ OutcomeUnchanged

show(p) ==
  /\ pc[p] = "win_show"
  /\ \E ok \in BOOLEAN :
       /\ Log(p, "show", ok)
       /\ visible' = IF ok THEN TRUE ELSE visible
       /\ Goto(p, AfterShow(ok))
  /\ UNCHANGED <<platform, requests, answers, shell, baseline, entry, focused>>
  /\ MacLocalsUnchanged /\ WinLocalsUnchanged /\ OutcomeUnchanged

(* thread::sleep(Duration::from_millis(30)), line 213 *)
sleep_30(p) ==
  /\ pc[p] = "win_sleep_30"
  /\ Log(p, "sleep_30", TRUE)
  /\ Goto(p, "win_set_focus")
  /\ UNCHANGED <<platform, requests, answers, shell, baseline, entry>>
  /\ WindowUnchanged /\ MacLocalsUnchanged /\ WinLocalsUnchanged /\ OutcomeUnchanged

set_focus(p) ==
  /\ pc[p] = "win_set_focus"
  /\ \E ok \in BOOLEAN :
       /\ Log(p, "set_focus", ok)
       /\ focused' = IF ok THEN TRUE ELSE focused
  /\ Goto(p, "win_return")
  /\ UNCHANGED <<platform, requests, answers, shell, baseline, entry, visible>>
  /\ MacLocalsUnchanged /\ WinLocalsUnchanged /\ OutcomeUnchanged

(* the function returns capture_result, line 221 *)
win_return(p) ==
  /\ pc[p] = "win_return"
  /\ StrategyReturns(p, WindowsStrategyResult(capture_result[p], trace[p]))
  /\ UNCHANGED <<platform, requests, answers, shell, baseline, entry, fallback_input, result, trace>>
  /\ WindowUnchanged /\ MacLocalsUnchanged /\ WinLocalsUnchanged

(* ---------------------------------------------------------------------- *)
(* Tray menu: TrayMenuState, the tray handlers and the close handler      *)
(* ---------------------------------------------------------------------- *)
captureVars == <<platform, requests, answers, pc, entry, was_visible, capture_result,
                 image, rgba, row, allocated, strategy_result, fallback_input,
                 result, trace, baseline>>

(* both items are given the same enabled state *)
set_visibility_SameState(is_vis, show_ok, hide_ok) ==
  /\ show_enabled' = IF show_ok THEN ~is_vis ELSE show_enabled
  /\ hide_enabled' = IF hide_ok THEN ~is_vis ELSE hide_enabled
  /\ tray_update' = [called |-> TRUE, visible |-> is_vis,
                      show_ok |-> show_ok, hide_ok |-> hide_ok]

(* TrayMenuState::set_visibility, lines 52-59; show_ok and hide_ok tell   *)
(* whether the two set_enabled calls succeeded                            *)
set_visibility(is_vis, show_ok, hide_ok) ==
  /\ show_enabled' = IF show_ok THEN ~is_vis ELSE show_enabled
  /\ hide_enabled' = IF hide_ok THEN is_vis ELSE hide_enabled
  /\ tray_update' = [called |-> TRUE, visible |-> is_vis,
                      show_ok |-> show_ok, hide_ok |-> hide_ok]

(* app.emit(event, ()), lines 487 and 496: a failure is only logged *)
emit(event, emit_ok) ==
  emitted' = IF emit_ok THEN event ELSE emitted

(* the close request goes through and destroys the window *)
CloseRequestOutcome_NotPrevented(exists) == FALSE

(* api.prevent_close(), line 717: the window outlives the close request *)
CloseRequestOutcome(exists) == exists

(* the setup hook: tray_state.set_visibility(false), line 678, and        *)
(* `let _ = main_window.hide()`, line 712                                 *)
setup ==
  /\ ~ready
  /\ ready' = TRUE
  /\ \E show_ok \in BOOLEAN, hide_ok \in BOOLEAN : set_visibility(FALSE, show_ok, hide_ok)
  /\ \E hidden \in BOOLEAN :
       /\ visible' = IF hidden THEN FALSE ELSE visible
       /\ focused' = IF hidden THEN FALSE ELSE focused
       /\ handled' = Handled("setup", TRUE, hidden, TRUE)
  /\ UNCHANGED <<captureVars, main_exists, emitted, settings>>

(* show_main_window, lines 486-493 *)
show_main_window(op) ==
  /\ \E emit_ok \in BOOLEAN :
       /\ emit("spotlight-show", emit_ok)
       /\ handled' = Handled(op, TRUE, TRUE, emit_ok)
  /\ \E show_ok \in BOOLEAN, hide_ok \in BOOLEAN : set_visibility(TRUE, show_ok, hide_ok)

(* hide_main_window, lines 495-502; window_ok is the outcome of the       *)
(* caller's own window call                                               *)
hide_main_window(op, window_ok) ==
  /\ \E emit_ok \in BOOLEAN :
       /\ emit("spotlight-hide", emit_ok)
       /\ handled' = Handled(op, TRUE, window_ok, emit_ok)
  /\ \E show_ok \in BOOLEAN, hide_ok \in BOOLEAN : set_visibility(FALSE, show_ok, hide_ok)

(* a click on the enabled tray item "Show Spotlight", line 688 *)
tray_show_click ==
  /\ ready
  /\ show_enabled
  /\ show_main_window("tray_show_click")
  /\ UNCHANGED <<captureVars, ready, visible, focused, main_exists, settings>>

(* a click on the enabled tray item "Hide Spotlight", line 689 *)
tray_hide_click ==
  /\ ready
  /\ hide_enabled
  /\ hide_main_window("tray_hide_click", TRUE)
  /\ UNCHANGED <<captureVars, ready, visible, focused, main_exists, settings>>

(* WindowEvent::CloseRequested on the main window, lines 716-722 *)
close_requested ==
  /\ ready
  /\ main_exists
  /\ main_exists' = CloseRequestOutcome(main_exists)
  /\ \E hidden \in BOOLEAN :
       /\ visible' = IF hidden THEN FALSE ELSE visible
       /\ focused' = IF hidden THEN FALSE ELSE focused
       /\ hide_main_window("close_requested", hidden)
  /\ UNCHANGED <<captureVars, ready, settings>>

(* the command sync_tray_visibility(visible), lines 67-70 *)
sync_tray_visibility ==
  /\ ready
  /\ \E v \in BOOLEAN, show_ok \in BOOLEAN, hide_ok \in BOOLEAN :
       set_visibility(v, show_ok, hide_ok)
  /\ handled' = Handled("sync_tray_visibility", TRUE, TRUE, TRUE)
  /\ UNCHANGED <<captureVars, ready, visible, focused, main_exists, emitted, settings>>

(* ---------------------------------------------------------------------- *)
(* Settings window: open_settings_window and close_api_settings_window    *)
(* ---------------------------------------------------------------------- *)
(* app.get_webview_window(SETTINGS_WINDOW_LABEL), lines 79 and 505 *)
SettingsWindowFound == settings_windows > 0

(* WebviewWindowBuilder::build, lines 511-523: one more window *)
Built(n) == IF n < MaxSettingsWindows THEN n + 1 ELSE n

(* the settings window takes the input focus from the main window *)
FocusSettings(focus_ok) ==
  /\ settings_focused' = IF focus_ok THEN TRUE ELSE settings_focused
  /\ focused' = IF focus_ok THEN FALSE ELSE focused

(* a window is built without looking for an existing one *)
open_settings_window_AlwaysBuilds(op, build_ok, show_ok, focus_ok) ==
  /\ settings_windows' = IF build_ok THEN Built(settings_windows) ELSE settings_windows
  /\ settings_visible' = IF build_ok THEN TRUE ELSE settings_visible
  /\ IF build_ok
       THEN FocusSettings(focus_ok)
       ELSE UNCHANGED <<settings_focused, focused>>
  /\ handled' = Handled(op, FALSE, build_ok /\ focus_ok, TRUE)
  /\ UNCHANGED settings_closing

(* open_settings_window, lines 504-527: build_ok, show_ok and focus_ok    *)
(* are the outcomes of build(), show() and set_focus(); `?` returns at    *)
(* the first failure                                                      *)
open_settings_window(op, build_ok, show_ok, focus_ok) ==
  IF SettingsWindowFound
    THEN /\ settings_visible' = IF show_ok THEN TRUE ELSE settings_visible
         /\ IF show_ok
              THEN FocusSettings(focus_ok)
              ELSE UNCHANGED <<settings_focused, focused>>
         /\ handled' = Handled(op, TRUE, show_ok /\ focus_ok, TRUE)
         /\ UNCHANGED <<settings_windows, settings_closing>>
    ELSE /\ settings_windows' = IF build_ok THEN Built(settings_windows) ELSE settings_windows
         /\ settings_visible' = IF build_ok THEN TRUE ELSE settings_visible
         /\ IF build_ok
              THEN FocusSettings(focus_ok)
              ELSE UNCHANGED <<settings_focused, focused>>
         /\ handled' = Handled(op, FALSE, build_ok /\ focus_ok, TRUE)
         /\ UNCHANGED settings_closing

(* the application menu item "API Key Settings...", lines 618-622 *)
menu_api_settings ==
  /\ ready
  /\ \E build_ok \in BOOLEAN, show_ok \in BOOLEAN, focus_ok \in BOOLEAN :
       open_settings_window("menu_api_settings", build_ok, show_ok, focus_ok)
  /\ UNCHANGED <<captureVars, tray, visible, main_exists, emitted>>

(* the tray item "API Key Settings...", lines 690-694 *)
tray_api_settings ==
  /\ ready
  /\ \E build_ok \in BOOLEAN, show_ok \in BOOLEAN, focus_ok \in BOOLEAN :
       open_settings_window("tray_api_settings", build_ok, show_ok, focus_ok)
  /\ UNCHANGED <<captureVars, tray, visible, main_exists, emitted>>

(* the command open_api_settings_window, lines 72-75 *)
open_api_settings_window ==
  /\ ready
  /\ \E build_ok \in BOOLEAN, show_ok \in BOOLEAN, focus_ok \in BOOLEAN :
       open_settings_window("open_api_settings_window", build_ok, show_ok, focus_ok)
  /\ UNCHANGED <<captureVars, tray, visible, main_exists, emitted>>

(* the command close_api_settings_window, lines 77-84: close() asks the   *)
(* event loop to close the window                                         *)
close_api_settings_window ==
  /\ ready
  /\ IF SettingsWindowFound
       THEN \E close_ok \in BOOLEAN :
              /\ settings_closing' = IF close_ok THEN TRUE ELSE settings_closing
              /\ handled' = Handled("close_api_settings_window", TRUE, close_ok, TRUE)
       ELSE /\ handled' = Handled("close_api_settings_window", FALSE, TRUE, TRUE)
            /\ UNCHANGED settings_closing
  /\ UNCHANGED <<captureVars, tray, visible, focused, main_exists, emitted,
                 settings_windows, settings_visible, settings_focused>>

(* the event loop destroys a settings window whose close was requested *)
settings_destroyed ==
  /\ settings_closing
  /\ settings_windows > 0
  /\ settings_windows' = settings_windows - 1
  /\ settings_visible' = FALSE
  /\ settings_focused' = FALSE
  /\ settings_closing' = FALSE
  /\ handled' = Handled("settings_destroyed", TRUE, TRUE, TRUE)
  /\ UNCHANGED <<captureVars, tray, visible, focused, main_exists, emitted>>

(* ---------------------------------------------------------------------- *)
(* Specifications                                                         *)
(* ---------------------------------------------------------------------- *)
Next ==
  \E p \in Procs :
    \/ capture_screen(p)
    \/ capture_screen_inner(p)
    \/ strategy_returned(p)
    \/ fallback(p)
    \/ fallback_panic(p)
    \/ ns_window(p)
    \/ create_image(p)
    \/ mac_len_check(p)
    \/ mac_convert_row(p)
    \/ mac_row_panic(p)
    \/ mac_rows_done(p)
    \/ mac_encode(p)
    \/ is_visible(p)
    \/ hide(p)
    \/ sleep_80(p)
    \/ win_capture(p)
    \/ win_capture_panic(p)
    \/ show(p)
    \/ sleep_30(p)
    \/ set_focus(p)
    \/ win_return(p)

Spec == Init /\ [][Next]_vars

(* overlapping requests run the orchestrator and the Windows strategy *)
NextConc ==
  \E p \in Procs :
    \/ capture_screen(p)
    \/ capture_screen_inner(p)
    \/ strategy_returned(p)
    \/ fallback(p)
    \/ fallback_panic(p)
    \/ is_visible(p)
    \/ hide(p)
    \/ sleep_80(p)
    \/ win_capture(p)
    \/ win_capture_panic(p)
    \/ show(p)
    \/ sleep_30(p)
    \/ set_focus(p)
    \/ win_return(p)

SpecConc == InitConc /\ [][NextConc]_vars

(* capture requests, and the transport encoding on every PNG of PngSamples *)
InitAnyPng == Init \/ InitEnc

SpecEnc == InitAnyPng /\ [][Next]_vars

(* the steps of invocation p once the host has issued it, every native    *)
(* call returning                                                         *)
Run(p) ==
  \/ capture_screen_inner(p)
  \/ strategy_returned(p)
  \/ fallback(p)
  \/ ns_window(p)
  \/ create_image(p)
  \/ mac_len_check(p)
  \/ mac_convert_row(p)
  \/ mac_row_panic(p)
  \/ mac_rows_done(p)
  \/ mac_encode(p)
  \/ is_visible(p)
  \/ hide(p)
  \/ sleep_80(p)
  \/ win_capture(p)
  \/ show(p)
  \/ sleep_30(p)
  \/ set_focus(p)
  \/ win_return(p)

NextLive == \E p \in Procs : capture_screen(p) \/ Run(p)

(* a started invocation keeps running: the command's code is sequential   *)
(* and every native call returns                                          *)
SpecLive == Init /\ [][NextLive]_vars /\ \A p \in Procs : WF_vars(Run(p))

(* the application from its setup on: tray, menu, close requests and the *)
(* window commands                                                       *)
NextTray ==
  \/ setup
  \/ tray_show_click
  \/ tray_hide_click
  \/ close_requested
  \/ sync_tray_visibility
  \/ menu_api_settings
  \/ tray_api_settings
  \/ open_api_settings_window
  \/ close_api_settings_window
  \/ settings_destroyed

SpecTray == InitTray /\ [][NextTray]_vars

(* the pixel conversion on every image of ConvImages *)
NextConv ==
  \E p \in Procs :
    \/ mac_len_check(p)
    \/ mac_convert_row(p)
    \/ mac_row_panic(p)
    \/ mac_rows_done(p)

SpecConv == InitConv /\ [][NextConv]_vars

(* ---------------------------------------------------------------------- *)
(* Properties of the hide-and-restore strategy                            *)
(* ---------------------------------------------------------------------- *)
WindowCalls == {"is_visible", "hide", "show", "set_focus"}

NoWindowCallFailed(tr) == \A i \in 1..Len(tr) : tr[i].call \in WindowCalls => tr[i].ok

(* p has returned from capture_screen_without_overlay_windows *)
WinReturned(p) == platform = "windows" /\ pc[p] = "strategy_returned"

(* C1 as stated: when the strategy returns on a window that was visible   *)
(* at entry, the window is visible and focused.                           *)
C1_VisibleAndFocusedAtReturn ==
  \A p \in Procs : (WinReturned(p) /\ entry[p].visible) => (visible /\ focused)

(* C1 amended: when the strategy returns on a window that was visible at  *)
(* entry, the window is visible unless the show call failed, and it is    *)
(* visible and focused when no is_visible, hide, show or set_focus call   *)
(* failed; this holds after a successful and after a failing capture.     *)
C1_RestoredUnlessCallFailed ==
  \A p \in Procs : (WinReturned(p) /\ entry[p].visible) =>
     /\ ~Failed(trace[p], "show") => visible
     /\ NoWindowCallFailed(trace[p]) => (visible /\ focused)

C1_Witness ==
  \E p \in Procs :
     /\ WinReturned(p) /\ entry[p].visible
     /\ Succeeded(trace[p], "hide")
     /\ capture_result[p].kind = "err"
     /\ Succeeded(trace[p], "show") /\ Succeeded(trace[p], "set_focus")
     /\ visible /\ focused

(* C2: on a window that is hidden at entry the strategy issues no hide,   *)
(* show or set_focus call, whatever the capture's outcome, and leaves the *)
(* window's visibility and focus as they were.                            *)
C2_HiddenWindowUntouched ==
  \A p \in Procs :
     (platform = "windows" /\ pc[p] \notin {"idle", "inner"} /\ ~entry[p].visible) =>
        /\ ~Called(trace[p], "hide")
        /\ ~Called(trace[p], "show")
        /\ ~Called(trace[p], "set_focus")
        /\ visible = entry[p].visible
        /\ focused = entry[p].focused

C2_Witness ==
  \E p \in Procs :
     /\ WinReturned(p) /\ ~entry[p].visible
     /\ Succeeded(trace[p], "is_visible")
     /\ Called(trace[p], "capture_full_display_png")
     /\ capture_result[p].kind = "err"

(* C4: once the strategy has hidden the window, every exit from it        *)
(* (return of a result, or abnormal termination) comes after a show call. *)
C4_ShowOnEveryExit ==
  \A p \in Procs :
     (/\ platform = "windows"
      /\ Succeeded(trace[p], "hide")
      /\ pc[p] \in {"strategy_returned", "fallback", "done", "panicked"})
       => Called(trace[p], "show")

(* C7: the strategy returns exactly the inner capture's result, also when *)
(* show or set_focus failed during the restoration.                       *)
C7_ResultIsCaptureResult ==
  \A p \in Procs :
     (WinReturned(p) /\ Called(trace[p], "capture_full_display_png")) =>
        strategy_result[p] = capture_result[p]

C7_Witness ==
  \E p \in Procs :
     /\ WinReturned(p)
     /\ Failed(trace[p], "show")
     /\ Failed(trace[p], "set_focus")
     /\ capture_result[p].kind = "ok"
     /\ strategy_result[p].kind = "ok"

(* ---------------------------------------------------------------------- *)
(* Properties of the orchestrator                                         *)
(* ---------------------------------------------------------------------- *)
(* p holds an image returned by CGWindowListCreateImage *)
Converting(p) == platform = "macos" /\ Succeeded(trace[p], "create_image")

(* the row loop of p has panicked *)
ConversionPanicked(p) ==
  pc[p] = "panicked" /\ trace[p][Len(trace[p])] = Event("panic", FALSE)

LengthError == Err("Unexpected pixel buffer length")

FallbackAlone(p) ==
  capture_full_display_base64(fallback_input[p].ans, fallback_input[p].shown)

(* C3: when the platform strategy has failed, capture_screen returns what *)
(* the universal fallback alone produces on the display as it then is.    *)
C3_FallbackResultReturned ==
  \A p \in Procs :
     (pc[p] = "done" /\ strategy_result[p].kind = "err") =>
        /\ fallback_input[p].called
        /\ result[p] = FallbackAlone(p)

C3_Witness ==
  \E p \in Procs :
     /\ pc[p] = "done"
     /\ strategy_result[p].kind = "err"
     /\ fallback_input[p].called
     /\ result[p].kind = "err"
     /\ result[p].err # strategy_result[p].err

CaptureCalls == {"capture_full_display_base64", "capture_full_display_png", "create_image"}

C6_StrategyFailureRecovered ==
  \A p \in Procs :
     /\ (pc[p] = "fallback" \/ Called(trace[p], "capture_full_display_base64")) =>
          (strategy_result[p].kind = "err" \/ platform = "other")
     /\ pc[p] = "done" =>
          /\ fallback_input[p].called <=>
               (strategy_result[p].kind = "err" \/ platform = "other")
          /\ result[p].kind = "err" <=>
               (fallback_input[p].called /\ FallbackAlone(p).kind = "err")
          /\ result[p].kind = "err" => result[p].err = FallbackAlone(p).err

C6_Witness ==
  \E p \in Procs :
     /\ pc[p] = "done"
     /\ platform = "macos"
     /\ strategy_result[p] = LengthError
     /\ fallback_input[p].called
     /\ result[p].kind = "ok"

(* ---------------------------------------------------------------------- *)
(* Properties of the pixel conversion                                     *)
(* ---------------------------------------------------------------------- *)
ValidLayout(img) ==
  /\ img.bytes_per_row >= img.width * 4
  /\ Len(img.data) >= img.bytes_per_row * img.height

(* C8: with stride >= width*4 and at least stride*height source bytes the *)
(* conversion completes and its output has exactly width*height*4 bytes.  *)
C8_OutputLength ==
  \A p \in Procs :
     (Converting(p) /\ ValidLayout(image[p])) =>
        /\ ~ConversionPanicked(p)
        /\ strategy_result[p] # LengthError
        /\ pc[p] # "mac_len_check" =>
             (allocated[p] /\ Len(rgba[p]) = image[p].width * image[p].height * 4)
        /\ pc[p] = "mac_rows" => row[p] <= image[p].height

C8_Witness ==
  \E p \in Procs :
     /\ pc[p] = "mac_encode"
     /\ image[p].width > 0 /\ image[p].height = 2
     /\ image[p].bytes_per_row > image[p].width * 4
     /\ Len(rgba[p]) = image[p].width * image[p].height * 4

(* C9: a buffer shorter than stride*height makes the conversion fail with *)
(* the buffer-length error before any output buffer exists; nothing is    *)
(* converted or encoded in that attempt.                                  *)
C9_TooShortFailsEarly ==
  \A p \in Procs :
     (Converting(p) /\ Len(image[p].data) < image[p].bytes_per_row * image[p].height) =>
        /\ ~allocated[p]
        /\ rgba[p] = << >>
        /\ pc[p] \notin {"mac_rows", "mac_encode"}
        /\ ~ConversionPanicked(p)
        /\ ~Called(trace[p], "png_encode")
        /\ pc[p] # "mac_len_check" => strategy_result[p] = LengthError

C9_Witness ==
  \E p \in Procs :
     /\ pc[p] = "strategy_returned"
     /\ Len(image[p].data) >= image[p].width * 4 * image[p].height
     /\ Len(image[p].data) < image[p].bytes_per_row * image[p].height
     /\ strategy_result[p] = LengthError
     /\ ~allocated[p]

SwapChannel(ch) == CASE ch = 0 -> 2 [] ch = 2 -> 0 [] OTHER -> ch

Injective(seq) == \A i, j \in 1..Len(seq) : seq[i] = seq[j] => i = j

Range(seq) == { seq[i] : i \in 1..Len(seq) }

(* C10: every converted output pixel (r, c) is the source pixel at        *)
(* r*stride + 4*c with channels 0 and 2 swapped and channels 1 and 3      *)
(* copied; padding bytes of a row never reach the output; the 2x1 example *)
(* [10,20,30,255,40,50,60,255] converts to [30,20,10,255,60,50,40,255].   *)
C10_PixelMapping ==
  \A p \in Procs :
     (Converting(p) /\ pc[p] \in {"mac_rows", "mac_encode"}) =>
        LET img == image[p] IN
        /\ \A r \in 0..(row[p] - 1), c \in 0..(img.width - 1), ch \in 0..3 :
             rgba[p][r * img.width * 4 + 4 * c + ch + 1]
               = img.data[r * img.bytes_per_row + 4 * c + SwapChannel(ch) + 1]
        /\ (pc[p] = "mac_encode" /\ img.bytes_per_row >= img.width * 4 /\ Injective(img.data)) =>
             \A r \in 0..(img.height - 1) :
               \A i \in (r * img.bytes_per_row + img.width * 4 + 1)..((r + 1) * img.bytes_per_row) :
                 img.data[i] \notin Range(rgba[p])
        /\ (pc[p] = "mac_encode" /\ img.width = 2 /\ img.height = 1
              /\ img.bytes_per_row = 8 /\ img.data = SpecExample) =>
             rgba[p] = <<30, 20, 10, 255, 60, 50, 40, 255>>

C10_Witness ==
  \E p \in Procs :
     /\ pc[p] = "mac_encode"
     /\ image[p] = [width |-> 2, height |-> 1, bytes_per_row |-> 8, data |-> SpecExample]
     /\ rgba[p] = <<30, 20, 10, 255, 60, 50, 40, 255>>

(* channels 0 and 2 of every 4-byte pixel of a packed buffer exchanged *)
SwapAgain(seq) ==
  [i \in 1..Len(seq) |-> seq[4 * ((i - 1) \div 4) + SwapChannel((i - 1) % 4) + 1]]

TightlyPacked(img) ==
  /\ img.bytes_per_row = img.width * 4
  /\ Len(img.data) = img.width * img.height * 4

(* C11: for a tightly packed source buffer, exchanging channels 0 and 2   *)
(* of every pixel of the converted buffer gives back the source buffer.   *)
C11_SwapRoundTrip ==
  \A p \in Procs :
     (Converting(p) /\ pc[p] = "mac_encode" /\ TightlyPacked(image[p])) =>
        SwapAgain(rgba[p]) = image[p].data

C11_Witness ==
  \E p \in Procs :
     /\ Converting(p) /\ pc[p] = "mac_encode"
     /\ TightlyPacked(image[p])
     /\ image[p].width = 2 /\ image[p].height = 2
     /\ rgba[p] # image[p].data
     /\ SwapAgain(rgba[p]) = image[p].data

(* C19: once the length check has passed, every source row the loop is    *)
(* about to read, [y*bytes_per_row, y*bytes_per_row + width*4), lies      *)
(* within the source buffer, whatever the image's dimensions and stride.  *)
C19_RowsInRange ==
  \A p \in Procs :
     /\ (Converting(p) /\ pc[p] = "mac_rows" /\ row[p] < image[p].height) =>
          SrcRowInRange(image[p], row[p])
     /\ Converting(p) => ~ConversionPanicked(p)

(* ---------------------------------------------------------------------- *)
(* Properties of the transport encoding                                   *)
(* ---------------------------------------------------------------------- *)
(* a standard base64 decoder (RFC 4648, padded); <<-1>> on invalid input  *)
B64Value(c) ==
  IF \E i \in 0..63 : B64Alphabet[i + 1] = c
    THEN CHOOSE i \in 0..63 : B64Alphabet[i + 1] = c
    ELSE -1

RECURSIVE Base64Decode(_)
Base64Decode(chars) ==
  IF Len(chars) = 0 THEN << >>
  ELSE IF Len(chars) < 4 THEN << -1 >>
  ELSE
    LET v1 == B64Value(chars[1])
        v2 == B64Value(chars[2])
        v3 == B64Value(chars[3])
        v4 == B64Value(chars[4])
    IN IF v1 = -1 \/ v2 = -1 THEN << -1 >>
       ELSE IF chars[3] = "=" /\ chars[4] = "=" THEN
         IF Len(chars) = 4 /\ v2 % 16 = 0 THEN << v1 * 4 + v2 \div 16 >> ELSE << -1 >>
       ELSE IF v3 = -1 THEN << -1 >>
       ELSE IF chars[4] = "=" THEN
         IF Len(chars) = 4 /\ v3 % 4 = 0
           THEN << v1 * 4 + v2 \div 16, (v2 % 16) * 16 + v3 \div 4 >>
           ELSE << -1 >>
       ELSE IF v4 = -1 THEN << -1 >>
       ELSE << v1 * 4 + v2 \div 16, (v2 % 16) * 16 + v3 \div 4, (v3 % 4) * 64 + v4 >>
            \o Base64Decode(SubSeq(chars, 5, Len(chars)))

(* the image bytes the request produced: the strategy's or the fallback's *)
ProducedBytes(p) ==
  IF strategy_result[p].kind = "ok"
    THEN strategy_result[p].val
    ELSE capture_full_display_png(fallback_input[p].ans, fallback_input[p].shown).val

(* C12: every successful capture_screen result is a padded standard       *)
(* base64 string without line breaks whose decoding is exactly the image  *)
(* bytes the strategy or the fallback produced.                           *)
C12_Base64RoundTrip ==
  \A p \in Procs :
     (pc[p] = "done" /\ result[p].kind = "ok") =>
        /\ Len(result[p].val) % 4 = 0
        /\ \A i \in 1..Len(result[p].val) :
             result[p].val[i] = "=" \/ B64Value(result[p].val[i]) # -1
        /\ Base64Decode(result[p].val) = ProducedBytes(p)

C12_Witness ==
  \E p \in Procs :
     /\ pc[p] = "done" /\ result[p].kind = "ok"
     /\ strategy_result[p] = Ok(<<255, 170, 252, 63>>)
     /\ Base64Decode(result[p].val) = <<255, 170, 252, 63>>

(* ---------------------------------------------------------------------- *)
(* Order and confinement of the window calls                              *)
(* ---------------------------------------------------------------------- *)
CallNames(tr) == [i \in 1..Len(tr) |-> tr[i].call]

(* the calls of the strategy up to the capture, on a window it has hidden *)
HiddenBeforeCapture(p) ==
  /\ \A i \in Calls(trace[p], "capture_full_display_png") :
       /\ i > 2
       /\ trace[p][i - 1] = Event("sleep_80", TRUE)
       /\ trace[p][i - 2] = Event("hide", TRUE)
  /\ pc[p] = "win_capture" =>
       /\ Len(trace[p]) = 3
       /\ trace[p][3] = Event("sleep_80", TRUE)
       /\ trace[p][2] = Event("hide", TRUE)
  /\ \A i \in Calls(trace[p], "show") :
       i > 1 /\ trace[p][i - 1].call = "capture_full_display_png"

(* C13 as stated: on a window the strategy has hidden, the calls are      *)
(* hide, 80 ms delay, capture, show, 30 ms delay, set_focus in this       *)
(* order, and every set_focus directly follows the 30 ms delay.           *)
C13_FocusAfterSecondDelay ==
  \A p \in Procs :
     (platform = "windows" /\ Succeeded(trace[p], "hide")) =>
        /\ HiddenBeforeCapture(p)
        /\ \A i \in Calls(trace[p], "set_focus") :
             /\ i > 2
             /\ trace[p][i - 1].call = "sleep_30"
             /\ trace[p][i - 2].call = "show"

(* C13 amended: the order is hide, 80 ms delay, capture, show, and then   *)
(* either the 30 ms delay followed by set_focus when show succeeded, or   *)
(* set_focus at once, without the delay, when show failed.                *)
C13_StepOrder ==
  \A p \in Procs :
     (platform = "windows" /\ Succeeded(trace[p], "hide")) =>
        /\ HiddenBeforeCapture(p)
        /\ \A i \in Calls(trace[p], "sleep_30") :
             i > 1 /\ trace[p][i - 1] = Event("show", TRUE)
        /\ \A i \in Calls(trace[p], "set_focus") :
             /\ i > 2
             /\ \/ /\ trace[p][i - 1] = Event("sleep_30", TRUE)
                   /\ trace[p][i - 2] = Event("show", TRUE)
                \/ trace[p][i - 1] = Event("show", FALSE)
        /\ WinReturned(p) =>
             CallNames(trace[p]) \in
               { <<"is_visible", "hide", "sleep_80", "capture_full_display_png",
                   "show", "sleep_30", "set_focus">>,
                 <<"is_visible", "hide", "sleep_80", "capture_full_display_png",
                   "show", "set_focus">> }

C13_Witness ==
  \E p \in Procs :
     /\ WinReturned(p)
     /\ Succeeded(trace[p], "show")
     /\ CallNames(trace[p]) =
          <<"is_visible", "hide", "sleep_80", "capture_full_display_png",
            "show", "sleep_30", "set_focus">>

(* no window call outside the hide-and-restore strategy *)
WindowCallsConfined ==
  \A p \in Procs :
     /\ platform # "windows" =>
          \A i \in 1..Len(trace[p]) : trace[p][i].call \notin WindowCalls
     /\ \A i \in 1..Len(trace[p]) : \A j \in 1..(i - 1) :
          trace[p][i].call \in WindowCalls =>
             trace[p][j].call \notin {"capture_full_display_base64", "return"}

(* C14 as stated: only the hide-and-restore strategy issues window calls, *)
(* and whenever capture_screen returns the window it hid is visible again.*)
C14_EveryHideReverted ==
  /\ WindowCallsConfined
  /\ \A p \in Procs :
       (pc[p] = "done" /\ Succeeded(trace[p], "hide")) => visible

(* a step that changes the window is a hide, show or set_focus step of    *)
(* the hide-and-restore strategy                                          *)
WindowChangedByStrategyOnly ==
  (visible' # visible \/ focused' # focused) =>
     \E p \in Procs :
        /\ platform = "windows"
        /\ pc[p] \in {"win_hide", "win_show", "win_set_focus"}
        /\ pc[p]' # pc[p]

(* C14 amended: only the hide, show and set_focus steps of the            *)
(* hide-and-restore strategy change the window or issue window calls, and *)
(* whenever capture_screen returns, a hide made during the request has    *)
(* been followed by a show call and the window is visible again unless    *)
(* that show call failed.                                                 *)
C14_SideEffectsConfined ==
  /\ [][WindowChangedByStrategyOnly]_vars
  /\ [](WindowCallsConfined
        /\ \A p \in Procs :
             (pc[p] = "done" /\ Succeeded(trace[p], "hide")) =>
                /\ Called(trace[p], "show")
                /\ Succeeded(trace[p], "show") => visible)

C14_Witness ==
  \E p \in Procs :
     /\ pc[p] = "done"
     /\ Succeeded(trace[p], "hide")
     /\ capture_result[p].kind = "err"
     /\ Succeeded(trace[p], "show")
     /\ Called(trace[p], "capture_full_display_base64")
     /\ visible

(* ---------------------------------------------------------------------- *)
(* Properties of the universal fallback                                   *)
(* ---------------------------------------------------------------------- *)
(* C15: the fallback returns the capture of the first enumerated display, *)
(* the no-display error for an empty enumeration and the library's error  *)
(* when enumeration or capture fails; whether it fails depends on the     *)
(* display library's answers only, never on the window.                   *)
C15_FallbackFirstDisplay ==
  \A p \in Procs :
     (pc[p] = "done" /\ fallback_input[p].called) =>
        LET a == fallback_input[p].ans IN
        /\ ~a.all_ok => result[p] = Err("Screen::all failed")
        /\ (a.all_ok /\ Len(a.screens) = 0) => result[p] = Err("No screens found")
        /\ (a.all_ok /\ Len(a.screens) > 0 /\ ~a.capture_ok) =>
             result[p] = Err("screen.capture failed")
        /\ (a.all_ok /\ Len(a.screens) > 0 /\ a.capture_ok /\ a.png_ok) =>
             result[p] = Ok(Base64Encode(DisplayPng(a.screens[1], fallback_input[p].shown)))
        /\ platform = "other" =>
             \A i \in 1..Len(trace[p]) : trace[p][i].call \notin WindowCalls

C15_Witness ==
  \E p \in Procs :
     /\ pc[p] = "done" /\ fallback_input[p].called
     /\ platform = "other"
     /\ fallback_input[p].ans.screens = <<2, 1>>
     /\ result[p] = Ok(Base64Encode(DisplayPng(2, TRUE)))

(* ---------------------------------------------------------------------- *)
(* Overlapping requests                                                   *)
(* ---------------------------------------------------------------------- *)
InStrategy(p) ==
  pc[p] \in {"win_is_visible", "win_hide", "win_sleep_80", "win_capture",
             "win_show", "win_sleep_30", "win_set_focus", "win_return"}

(* C16: overlapping requests are not serialized: a request never waits    *)
(* for another one, neither to enter capture_screen_inner nor to query,   *)
(* hide, capture or show; so a request that hid the window can capture    *)
(* while the window is visible again (the state of C16_Witness).          *)
C16_NotSerialized ==
  \A p \in requests :
     /\ pc[p] = "inner" => ENABLED capture_screen_inner(p)
     /\ pc[p] = "win_is_visible" => ENABLED is_visible(p)
     /\ pc[p] = "win_hide" => ENABLED hide(p)
     /\ pc[p] = "win_capture" => ENABLED win_capture(p)
     /\ pc[p] = "win_show" => ENABLED show(p)

C16_Witness ==
  \E p \in Procs : \E q \in Procs \ {p} :
     /\ was_visible[p] /\ Succeeded(trace[p], "hide")
     /\ pc[p] = "win_show"
     /\ capture_result[p] = Ok(DisplayPng(1, TRUE))
     /\ InStrategy(q)
     /\ was_visible[q] /\ Succeeded(trace[q], "hide") /\ Succeeded(trace[q], "show")

NoMutatingCallFailed(tr) ==
  \A i \in 1..Len(tr) : tr[i].call \in {"hide", "show", "set_focus"} => tr[i].ok

(* C18: when the overlapping requests have all returned and no hide, show *)
(* or set_focus call of theirs has failed, the window's visibility is     *)
(* what it was before the first of them started.                          *)
C18_VisibilityRestored ==
  ((\A p \in requests : pc[p] = "done" /\ NoMutatingCallFailed(trace[p]))
     /\ baseline.clean)
    => visible = baseline.visible

C18_Witness ==
  /\ \A p \in requests : pc[p] = "done" /\ NoMutatingCallFailed(trace[p])
  /\ requests = {1, 2}
  /\ baseline.clean /\ baseline.visible
  /\ Succeeded(trace[1], "hide") /\ Succeeded(trace[1], "show")
  /\ Succeeded(trace[2], "is_visible") /\ ~was_visible[2]
  /\ visible

(* ---------------------------------------------------------------------- *)
(* Termination                                                            *)
(* ---------------------------------------------------------------------- *)
Stage(label) ==
  CASE label = "idle" -> 0
    [] label = "inner" -> 1
    [] label = "fallback" -> 3
    [] label = "done" -> 4
    [] label = "panicked" -> 5
    [] OTHER -> 2

(* C17: with every native call returning, every capture request reaches   *)
(* Success or Failure, and on its way only moves forward through          *)
(* Requested, platform strategy attempted, Fallback-Attempted.            *)
C17_EventuallyTerminal ==
  /\ \A p \in Procs : (pc[p] = "inner") ~> (pc[p] = "done")
  /\ [][\A p \in Procs : Stage(pc[p]') >= Stage(pc[p]) \/ pc[p]' = "inner"]_vars

(* ---------------------------------------------------------------------- *)
(* Properties of the tray menu                                            *)
(* ---------------------------------------------------------------------- *)
LastUpdateSucceeded == tray_update.called /\ tray_update.show_ok /\ tray_update.hide_ok

(* C20: after setup and any tray click, close request or                  *)
(* sync_tray_visibility call whose menu updates succeeded, exactly one of *)
(* Show and Hide is enabled: Show iff the last recorded visibility is     *)
(* false, Hide iff it is true; setup records false, so Show comes first.  *)
C20_ExactlyOneTrayItem ==
  /\ [](ready => tray_update.called)
  /\ []((ready /\ LastUpdateSucceeded) =>
          /\ show_enabled = ~tray_update.visible
          /\ hide_enabled = tray_update.visible
          /\ show_enabled # hide_enabled)
  /\ [][(~ready /\ ready') =>
          /\ ~tray_update'.visible
          /\ (tray_update'.show_ok /\ tray_update'.hide_ok) => (show_enabled' /\ ~hide_enabled')]_vars

C20_Witness ==
  /\ ready
  /\ LastUpdateSucceeded
  /\ tray_update.visible
  /\ hide_enabled /\ ~show_enabled

(* ---------------------------------------------------------------------- *)
(* Properties of the settings window                                      *)
(* ---------------------------------------------------------------------- *)
OpenOps == {"menu_api_settings", "tray_api_settings", "open_api_settings_window"}

(* the last handler was an open that found a settings window *)
OpenedExisting == handled.op \in OpenOps /\ handled.found

(* the last handler was a close that found no settings window *)
ClosedNone == handled.op = "close_api_settings_window" /\ ~handled.found

(* C21 as stated: at most one settings window exists; after an open that  *)
(* found one the window is shown and focused and no other was created;    *)
(* a close that found none succeeded and left no window.                  *)
C21_OpenShowsAndFocuses ==
  /\ settings_windows <= 1
  /\ OpenedExisting =>
       (settings_windows = 1 /\ settings_visible /\ settings_focused)
  /\ ClosedNone => (handled.ok /\ NoSettingsWindow)

(* C21 amended: at most one settings window exists after any sequence of  *)
(* opens and closes from menu, tray or command; an open that finds one    *)
(* creates no other, and leaves it shown and focused when show() and      *)
(* set_focus() both succeeded; a close that finds none returns Ok and     *)
(* changes nothing.                                                       *)
C21_AtMostOneSettingsWindow ==
  /\ [](settings_windows <= 1)
  /\ [](OpenedExisting =>
          /\ settings_windows = 1
          /\ handled.ok => (settings_visible /\ settings_focused))
  /\ []((handled.op \in OpenOps /\ ~handled.found /\ handled.ok) =>
          (settings_windows = 1 /\ settings_visible /\ settings_focused))
  /\ [](ClosedNone => (handled.ok /\ NoSettingsWindow))
  /\ [][(handled' # handled /\ handled'.op \in OpenOps /\ handled'.found) =>
          settings_windows' = settings_windows]_vars
  /\ [][(handled' # handled /\ handled'.op = "close_api_settings_window" /\ ~handled'.found) =>
          UNCHANGED <<settings, tray, visible, focused, main_exists, emitted>>]_vars

C21_Witness ==
  /\ OpenedExisting
  /\ handled.ok
  /\ settings_windows = 1
  /\ settings_visible /\ settings_focused
  /\ ~settings_closing

(* ---------------------------------------------------------------------- *)
(* Properties of the close request on the main window                     *)
(* ---------------------------------------------------------------------- *)
CloseHandled == handled.op = "close_requested"

(* C22 as stated: the main window is never destroyed, and after a close   *)
(* request it is hidden, the hide event has been emitted and the tray has *)
(* Show enabled and Hide disabled.                                        *)
C22_CloseHidesAndUpdatesTray ==
  /\ main_exists
  /\ CloseHandled =>
       /\ ~visible
       /\ emitted = "spotlight-hide"
       /\ show_enabled /\ ~hide_enabled

(* C22 amended: a close request never destroys the main window, after any *)
(* number of them it still exists; the handler hides the window, emits    *)
(* the hide event and sets the tray to not-visible, and each of the three *)
(* takes effect when its call succeeded (a failure is only logged); with  *)
(* Show enabled the tray can ask for the window again.                    *)
C22_CloseNeverDestroys ==
  /\ [](main_exists)
  /\ [](CloseHandled =>
          /\ handled.ok => (~visible /\ ~focused)
          /\ handled.emit_ok => emitted = "spotlight-hide"
          /\ tray_update.called /\ ~tray_update.visible
          /\ tray_update.show_ok => show_enabled
          /\ tray_update.hide_ok => ~hide_enabled)
  /\ []((CloseHandled /\ tray_update.show_ok) => ENABLED tray_show_click)

C22_Witness ==
  /\ CloseHandled
  /\ handled.ok /\ handled.emit_ok
  /\ LastUpdateSucceeded
  /\ main_exists
  /\ ~visible
  /\ emitted = "spotlight-hide"
  /\ show_enabled /\ ~hide_enabled

====
